---- MODULE Spec2Model ----
(***************************************************************************)
(* A model of gix-object's in-memory tree editor                           *)
(* (src/gix-object/src/tree/editor.rs).                                    *)
(*                                                                         *)
(* Filenames and paths are byte strings, modelled as sequences of byte     *)
(* values.  Object ids are content addresses: the id of a tree is the pair *)
(* <<"tree", entries>>, the id of a blob is <<"blob", <<n>>>> and the null *)
(* id is <<"null", <<>>>>.  The object database therefore needs no state:  *)
(* find_tree decodes a tree id, or fails.  The path hashes that key the    *)
(* pending store are modelled by the hashed bytes themselves, that is,     *)
(* without collisions.                                                     *)
(***************************************************************************)
EXTENDS Integers, Sequences, FiniteSets, TLC

VARIABLES
    trees,      \* Editor::trees: path bytes -> entries of the pending tree
    panicked,   \* "" or the message of the expect/assert that failed
    findLog,    \* calls of find_tree since the store was last cleared
    fetched,    \* path bytes -> entries as returned by find_tree for that path
    sunk,       \* calls of the sink made by the last operation, in order (a write's)
    pruned,     \* paths of the frames the last operation, a write, cut from their parent
    last,       \* the most recent operation and its outcome
    prev,       \* the operation before it
    ref,        \* reference result of the edits: the set of non-tree leaves (empty unless refOK)
    refOK,      \* the edits since the reference was seeded are upserts of non-tree kind and non-null id, or removes
    nops        \* number of operations performed

vars == <<trees, panicked, findLog, fetched, sunk, pruned, last, prev, ref, refOK, nops>>

----------------------------------------------------------------------------
(* Bounds *)

MaxOps == 4

----------------------------------------------------------------------------
(* Bytes, names, ids *)

Slash == 47

NameA == <<97>>          \* "a"
NameADash == <<97, 45>>  \* "a-", sorts before "a/" and after "a"
Names == {NameA, NameADash}

NoByte == -1             \* Option::None of a byte, ordered below every Some

Null == <<"null", <<>>>>
BlobId(n) == <<"blob", <<n>>>>
TreeId(entries) == <<"tree", entries>>
EmptyTreeId == TreeId(<<>>)

is_null(oid) == oid[1] = "null"
is_empty_tree(oid) == oid = EmptyTreeId

mode_is_tree(mode) == mode = "Tree"

MkEntry(name, mode, oid) == [filename |-> name, mode |-> mode, oid |-> oid]

Min(a, b) == IF a < b THEN a ELSE b

Sign(a, b) == IF a < b THEN -1 ELSE IF a > b THEN 1 ELSE 0

\* slice comparison a[..n].cmp(&b[..n])
RECURSIVE CmpPrefix(_, _, _, _)
CmpPrefix(a, b, i, n) ==
    IF i > n THEN 0
    ELSE IF a[i] # b[i] THEN Sign(a[i], b[i])
    ELSE CmpPrefix(a, b, i + 1, n)

ByteAfter(name, common, isTree) ==
    IF Len(name) > common THEN name[common + 1]
    ELSE IF isTree THEN Slash ELSE NoByte

cmp_entry_with_name(a, filename, is_tree) ==
    LET common == Min(Len(a.filename), Len(filename))
        c == CmpPrefix(a.filename, filename, 1, common)
    IN  IF c # 0 THEN c
        ELSE Sign(ByteAfter(a.filename, common, mode_is_tree(a.mode)),
                  ByteAfter(filename, common, is_tree))

\* Ord for tree::Entry, which Vec::sort uses
CmpEntries(a, b) == cmp_entry_with_name(a, b.filename, mode_is_tree(b.mode))

RECURSIVE InsertSorted(_, _)
InsertSorted(e, s) ==
    IF s = <<>> THEN <<e>>
    ELSE IF CmpEntries(e, Head(s)) < 0 THEN <<e>> \o s
    ELSE <<Head(s)>> \o InsertSorted(e, Tail(s))

RECURSIVE SortEntries(_)
SortEntries(s) ==
    IF s = <<>> THEN <<>>
    ELSE InsertSorted(s[Len(s)], SortEntries(SubSeq(s, 1, Len(s) - 1)))

IsSorted(s) == \A i \in 1..(Len(s) - 1) : CmpEntries(s[i], s[i + 1]) <= 0

\* slice::binary_search_by: [ok, idx] with idx 1-based (a match or the insertion point)
RECURSIVE BinarySearchFrom(_, _, _, _, _)
BinarySearchFrom(entries, name, is_tree, left, right) ==
    IF left >= right THEN [ok |-> FALSE, idx |-> left + 1]
    ELSE LET mid == left + ((right - left) \div 2)
             c == cmp_entry_with_name(entries[mid + 1], name, is_tree)
         IN  IF c < 0 THEN BinarySearchFrom(entries, name, is_tree, mid + 1, right)
             ELSE IF c > 0 THEN BinarySearchFrom(entries, name, is_tree, left, mid)
             ELSE [ok |-> TRUE, idx |-> mid + 1]

binary_search_by_ButLast(entries, name, is_tree) ==
    BinarySearchFrom(entries, name, is_tree, 0, Len(entries) - 1)

binary_search_by(entries, name, is_tree) ==
    BinarySearchFrom(entries, name, is_tree, 0, Len(entries))

RemoveAt(s, i) == SubSeq(s, 1, i - 1) \o SubSeq(s, i + 1, Len(s))
InsertAt(s, i, e) == SubSeq(s, 1, i - 1) \o <<e>> \o SubSeq(s, i, Len(s))

----------------------------------------------------------------------------
(* Paths *)

empty_path == <<>>

push_path_component(base, component) ==
    IF base = <<>> THEN component ELSE base \o <<Slash>> \o component

RECURSIVE RFindSlash(_, _)
RFindSlash(path, i) ==
    IF i = 0 THEN 0
    ELSE IF path[i] = Slash THEN i
    ELSE RFindSlash(path, i - 1)

filename(path) ==
    LET pos == RFindSlash(path, Len(path))
    IN  IF pos = 0 THEN path ELSE SubSeq(path, pos + 1, Len(path))

parent_path(path) ==
    LET pos == RFindSlash(path, Len(path))
    IN  IF pos = 0 THEN <<>> ELSE SubSeq(path, 1, pos - 1)

RECURSIVE JoinPath(_)
JoinPath(comps) ==
    IF comps = <<>> THEN <<>>
    ELSE push_path_component(JoinPath(SubSeq(comps, 1, Len(comps) - 1)), comps[Len(comps)])

\* the store with one key added or replaced
Put(store, key, tree) ==
    [k \in (DOMAIN store) \cup {key} |-> IF k = key THEN tree ELSE store[k]]

Drop(store, key) == [k \in (DOMAIN store) \ {key} |-> store[k]]

----------------------------------------------------------------------------
(* External collaborators *)

\* FindExt::find_tree on a content-addressed database: the decoded tree
find_tree(oid) == oid[2]

\* find_tree can only succeed for the id of a tree object
CanFind(oid) == oid[1] = "tree"

\* the sink handed to write: stores the tree and returns its content address
out(tree) == TreeId(tree)

----------------------------------------------------------------------------
(* Editor::upsert_or_remove *)

None == <<>>
Some(x) == <<x>>

RemoveOp == [set |-> FALSE, kind |-> "Blob", id |-> Null]
UpsertOp(kind, id) == [set |-> TRUE, kind |-> kind, id |-> id]

InsertionIdx_File(file_insertion_idx, dir_insertion_index, current_level_must_be_tree) ==
    file_insertion_idx

\* lines 186-192: where a missing name is inserted
InsertionIdx(file_insertion_idx, dir_insertion_index, current_level_must_be_tree) ==
    IF current_level_must_be_tree THEN dir_insertion_index ELSE file_insertion_idx

RemoveHit_Always(entries, is_last, idx) ==
    [entries |-> RemoveAt(entries, idx), stop |-> TRUE, lookup |-> None, sort |-> FALSE]

\* lines 196-208: remove met an entry of the name at idx
RemoveHit(entries, is_last, idx) ==
    IF is_last THEN
        [entries |-> RemoveAt(entries, idx), stop |-> TRUE,
         lookup |-> None, sort |-> FALSE]
    ELSE IF mode_is_tree(entries[idx].mode) THEN
        [entries |-> entries, stop |-> FALSE,
         lookup |-> Some(entries[idx].oid), sort |-> FALSE]
    ELSE
        [entries |-> entries, stop |-> TRUE, lookup |-> None, sort |-> FALSE]

\* lines 194-246: what one iteration of the loop does to the cursor's entries,
\* given whether the name was found (hit) and at which index (or insertion index).
\* stop: the iteration ended in break; lookup: tree_to_lookup; sort: needs_sorting
LevelAt(entries, name, is_last, op, hit, idx, current_level_must_be_tree) ==
    IF hit THEN
        IF ~op.set THEN RemoveHit(entries, is_last, idx)
        ELSE
            IF is_last THEN
                [entries |-> [entries EXCEPT ![idx] =
                                MkEntry(entries[idx].filename, op.kind, op.id)],
                 stop |-> FALSE, lookup |-> None,
                 sort |-> (mode_is_tree(entries[idx].mode) # current_level_must_be_tree)]
            ELSE IF mode_is_tree(entries[idx].mode) THEN
                [entries |-> entries, stop |-> FALSE,
                 lookup |-> Some(entries[idx].oid), sort |-> FALSE]
            ELSE
                [entries |-> [entries EXCEPT ![idx] =
                                MkEntry(entries[idx].filename, "Tree", Null)],
                 stop |-> FALSE, lookup |-> None,
                 sort |-> (mode_is_tree(entries[idx].mode) # current_level_must_be_tree)]
    ELSE
        IF ~op.set THEN
            [entries |-> entries, stop |-> TRUE, lookup |-> None, sort |-> FALSE]
        ELSE
            [entries |-> InsertAt(entries, idx,
                            MkEntry(name,
                                    IF is_last THEN op.kind ELSE "Tree",
                                    IF is_last THEN op.id ELSE Null)),
             stop |-> is_last, lookup |-> None, sort |-> FALSE]

LevelSearched_FileOnly(entries, name, is_last, op, fileS, dirS, current_level_must_be_tree) ==
    LevelAt(entries, name, is_last, op, fileS.ok,
            IF fileS.ok THEN fileS.idx
            ELSE InsertionIdx(fileS.idx, dirS.idx, current_level_must_be_tree),
            current_level_must_be_tree)

\* lines 179-193: the two searches, as non-tree and as tree
LevelSearched(entries, name, is_last, op, fileS, dirS, current_level_must_be_tree) ==
    LevelAt(entries, name, is_last, op, fileS.ok \/ dirS.ok,
            IF fileS.ok THEN fileS.idx
            ELSE IF dirS.ok THEN dirS.idx
            ELSE InsertionIdx(fileS.idx, dirS.idx, current_level_must_be_tree),
            current_level_must_be_tree)

\* lines 172-247
LevelStep(entries, name, is_last, op) ==
    LevelSearched(entries, name, is_last, op,
                  binary_search_by(entries, name, FALSE),
                  binary_search_by(entries, name, TRUE),
                  (~is_last) \/ (op.set /\ op.kind = "Tree"))

Advance_NoCache(store, key, tree_to_lookup) ==
    IF tree_to_lookup # None /\ ~is_empty_tree(tree_to_lookup[1]) THEN "find"
    ELSE IF key \in DOMAIN store THEN "occupied"
    ELSE "default"

\* lines 256-264: how the cursor moves to the subtree at `key`
Advance(store, key, tree_to_lookup) ==
    IF key \in DOMAIN store THEN "occupied"
    ELSE IF tree_to_lookup # None /\ ~is_empty_tree(tree_to_lookup[1]) THEN "find"
    ELSE "default"

EditEnd_LosesRoot(store, flog, fet, ok) ==
    [trees |-> IF ok THEN store ELSE Drop(store, empty_path),
     findLog |-> flog, fetched |-> fet, ok |-> ok]

\* lines 260, 267: the result, Err from find_tree or Ok
EditEnd(store, flog, fet, ok) ==
    [trees |-> store, findLog |-> flog, fetched |-> fet, ok |-> ok]

\* lines 173-266: the loop over the path components, from the cursor at key
\* `cursor` with `path_buf` the path walked so far.  failAt = n makes the n-th
\* find_tree call of this operation fail (0: none fails); nfind counts them.
RECURSIVE UpsertLoop(_, _, _, _, _, _, _, _, _)

\* lines 251-265: break after the last component, or move the cursor
UpsertAdvance(store, flog, fet, key, comps, op, failAt, nfind, stop, tree_to_lookup) ==
    IF stop THEN EditEnd(store, flog, fet, TRUE)
    ELSE IF Advance(store, key, tree_to_lookup) = "occupied" THEN
        UpsertLoop(store, flog, fet, key, key, Tail(comps), op, failAt, nfind)
    ELSE IF Advance(store, key, tree_to_lookup) = "find" THEN
        IF CanFind(tree_to_lookup[1]) /\ failAt # nfind + 1 THEN
            UpsertLoop(Put(store, key, find_tree(tree_to_lookup[1])),
                       Append(flog, [path |-> key, oid |-> tree_to_lookup[1], ok |-> TRUE]),
                       Put(fet, key, find_tree(tree_to_lookup[1])),
                       key, key, Tail(comps), op, failAt, nfind + 1)
        ELSE
            EditEnd(store,
                    Append(flog, [path |-> key, oid |-> tree_to_lookup[1], ok |-> FALSE]),
                    fet, FALSE)
    ELSE
        UpsertLoop(Put(store, key, <<>>), flog, fet, key, key, Tail(comps), op,
                   failAt, nfind)

\* lines 248-250: sort the cursor's entries if needed
UpsertLevel(store, flog, fet, cursor, path_buf, comps, op, failAt, nfind, lvl) ==
    UpsertAdvance(Put(store, cursor,
                      IF lvl.sort THEN SortEntries(lvl.entries) ELSE lvl.entries),
                  flog, fet, push_path_component(path_buf, Head(comps)), comps, op,
                  failAt, nfind, lvl.stop \/ Len(comps) = 1, lvl.lookup)

UpsertLoop(store, flog, fet, cursor, path_buf, comps, op, failAt, nfind) ==
    IF comps = <<>> THEN EditEnd(store, flog, fet, TRUE)
    ELSE UpsertLevel(store, flog, fet, cursor, path_buf, comps, op, failAt, nfind,
                     LevelStep(store[cursor], Head(comps), Len(comps) = 1, op))

upsert_or_remove(store, flog, fet, rela_path, op, failAt) ==
    UpsertLoop(store, flog, fet, empty_path, empty_path, rela_path, op, failAt, 0)

----------------------------------------------------------------------------
(* Editor::write *)

Frame_NoParent(parent_idx, rela_path, tree) ==
    [parent_idx |-> None, rela_path |-> rela_path, tree |-> tree]

Frame_ParentZero(parent_idx, rela_path, tree) ==
    [parent_idx |-> IF parent_idx = None THEN None ELSE Some(0),
     rela_path |-> rela_path, tree |-> tree]

\* lines 68-72, 82-86: a pending tree on one of the two stacks
Frame(parent_idx, rela_path, tree) ==
    [parent_idx |-> parent_idx, rela_path |-> rela_path, tree |-> tree]

Pop(stack) == SubSeq(stack, 1, Len(stack) - 1)

\* lines 77-87: probe the store for the subtree of every tree-kind entry, from
\* entry i on; every subtree found leaves the store for the children stack
RECURSIVE ScanEntries(_, _, _, _, _, _, _)
ScanEntries(entries, i, rela_path, store, children, unchanged, next_parent_idx) ==
    IF i > Len(entries) THEN
        [trees |-> store, children |-> children,
         all_entries_unchanged_or_written |-> unchanged]
    ELSE IF /\ mode_is_tree(entries[i].mode)
            /\ push_path_component(rela_path, entries[i].filename) \in DOMAIN store
    THEN
        ScanEntries(entries, i + 1, rela_path,
                    Drop(store, push_path_component(rela_path, entries[i].filename)),
                    Append(children,
                           Frame(Some(next_parent_idx),
                                 push_path_component(rela_path, entries[i].filename),
                                 store[push_path_component(rela_path, entries[i].filename)])),
                    FALSE, next_parent_idx)
    ELSE
        ScanEntries(entries, i + 1, rela_path, store, children, unchanged,
                    next_parent_idx)

PatchParent_Skip(parents, pi, entry_idx, id) == parents

\* line 101: the parent's entry takes the id the sink returned
PatchParent(parents, pi, entry_idx, id) ==
    [parents EXCEPT ![pi].tree[entry_idx].oid = id]

IsRootFrame_Never(parents) == FALSE

\* line 103: parents.is_empty()
IsRootFrame(parents) == parents = <<>>

IsPrunable_Never(tree) == FALSE

\* line 98: tree.entries.is_empty()
IsPrunable(tree) == tree = <<>>

FinalStore_Cleared(tree) == [k \in {} |-> tree]

FinalStore_Default(tree) == [k \in {empty_path} |-> <<>>]

\* lines 109-110: the store is cleared and keeps the written root
FinalStore(tree) == [k \in {empty_path} |-> tree]

RetainNonNull_Keep(s) == s

\* line 89: tree.entries.retain(|e| !e.oid.is_null())
RECURSIVE RetainNonNull(_)
RetainNonNull(s) ==
    IF s = <<>> THEN <<>>
    ELSE IF is_null(Head(s).oid) THEN RetainNonNull(Tail(s))
    ELSE <<Head(s)>> \o RetainNonNull(Tail(s))

\* lines 101, 104, 113: one call of the sink; `into` is the path of the frame
\* whose entry takes the id (None for a frame without parent)
SinkCall(rela_path, tree, ok, branch, into) ==
    [path |-> rela_path, tree |-> tree, id |-> out(tree), ok |-> ok,
     branch |-> branch, into |-> into]

WriteEnd(store, log, cut, res, id) ==
    [trees |-> store, sunk |-> log, pruned |-> cut, res |-> res, id |-> id]

\* lines 75-120: the loop over the two stacks.  failAt = n makes the n-th call
\* of the sink fail (0: none fails).
RECURSIVE WriteLoop(_, _, _, _, _, _)

\* lines 93-102: a ready frame with a parent, whose entry for it was searched
WriteChild(parents, children, store, pi, rela_path, tree, found, log, cut, failAt) ==
    IF ~found.ok THEN
        WriteEnd(store, log, cut, "the parent always knows us by name", Null)
    ELSE IF IsPrunable(tree) THEN
        WriteLoop([parents EXCEPT ![pi].tree = RemoveAt(@, found.idx)],
                  children, store, log, cut \cup {rela_path}, failAt)
    ELSE IF failAt = Len(log) + 1 THEN
        WriteEnd(store,
                 Append(log, SinkCall(rela_path, tree, FALSE, "child",
                                      Some(parents[pi].rela_path))),
                 cut, "err", Null)
    ELSE
        WriteLoop(PatchParent(parents, pi, found.idx, out(tree)),
                  children, store,
                  Append(log, SinkCall(rela_path, tree, TRUE, "child",
                                       Some(parents[pi].rela_path))),
                  cut, failAt)

\* lines 89-114: a frame none of whose subtrees is pending, its null entries dropped
WriteReady(parents, children, store, parent_idx, rela_path, tree, log, cut, failAt) ==
    IF parent_idx # None THEN
        IF parent_idx[1] >= Len(parents) THEN
            WriteEnd(store, log, cut, "always present, pointing towards zero", Null)
        ELSE
            WriteChild(parents, children, store, parent_idx[1] + 1, rela_path, tree,
                       binary_search_by(parents[parent_idx[1] + 1].tree,
                                        filename(rela_path), TRUE),
                       log, cut, failAt)
    ELSE IF IsRootFrame(parents) THEN
        IF children # <<>> THEN
            WriteEnd(store, log, cut, "we consume children before parents", Null)
        ELSE IF rela_path # empty_path THEN
            WriteEnd(store, log, cut, "this should always be the root tree", Null)
        ELSE IF failAt = Len(log) + 1 THEN
            WriteEnd(store, Append(log, SinkCall(rela_path, tree, FALSE, "root", None)),
                     cut, "err", Null)
        ELSE
            WriteEnd(FinalStore(tree),
                     Append(log, SinkCall(rela_path, tree, TRUE, "root", None)),
                     cut, "ok", out(tree))
    ELSE IF tree # <<>> THEN
        IF failAt = Len(log) + 1 THEN
            WriteEnd(store, Append(log, SinkCall(rela_path, tree, FALSE, "orphan", None)),
                     cut, "err", Null)
        ELSE
            WriteLoop(parents, children, store,
                      Append(log, SinkCall(rela_path, tree, TRUE, "orphan", None)),
                      cut, failAt)
    ELSE
        WriteLoop(parents, children, store, log, cut, failAt)

WriteScanned_Forget(parents, frame, scan, log, cut, failAt) ==
    IF scan.all_entries_unchanged_or_written THEN
        WriteReady(parents, scan.children, scan.trees, frame.parent_idx,
                   frame.rela_path, RetainNonNull(frame.tree), log, cut, failAt)
    ELSE
        WriteLoop(parents, scan.children, scan.trees, log, cut, failAt)

\* lines 88, 115-117: emit the scanned frame, or defer it behind its children
WriteScanned(parents, frame, scan, log, cut, failAt) ==
    IF scan.all_entries_unchanged_or_written THEN
        WriteReady(parents, scan.children, scan.trees, frame.parent_idx,
                   frame.rela_path, RetainNonNull(frame.tree), log, cut, failAt)
    ELSE
        WriteLoop(Append(parents, frame), scan.children, scan.trees, log, cut, failAt)

\* lines 76-87: scan the popped frame
WriteFrame(parents, children, frame, store, log, cut, failAt) ==
    WriteScanned(parents, frame,
                 ScanEntries(frame.tree, 1, frame.rela_path, store, children, TRUE,
                             Len(parents)),
                 log, cut, failAt)

\* line 75: pop a frame, children first
WriteLoop(parents, children, store, log, cut, failAt) ==
    IF children # <<>> THEN
        WriteFrame(parents, Pop(children), children[Len(children)], store, log, cut,
                   failAt)
    ELSE IF parents # <<>> THEN
        WriteFrame(Pop(parents), children, parents[Len(parents)], store, log, cut,
                   failAt)
    ELSE
        WriteEnd(store, log, cut, "we exit as soon as everything is consumed", Null)

\* lines 63-121, for a store that holds the root
write(store, failAt) ==
    WriteLoop(<<Frame(None, empty_path, store[empty_path])>>, <<>>,
              Drop(store, empty_path), <<>>, {}, failAt)

\* lines 40-47: Editor::new, the store holds the root alone
new(root) == [k \in {empty_path} |-> root]

set_root_Keep(store, root) == Put(store, empty_path, root)

\* lines 275-279: clear the store, then insert the root
set_root(store, root) == Put(<<>>, empty_path, root)

----------------------------------------------------------------------------
(* Inputs *)

B1 == BlobId(1)
B2 == BlobId(2)
T1 == TreeId(<<MkEntry(NameA, "Blob", B1)>>)
T2 == TreeId(<<MkEntry(NameA, "Tree", T1)>>)

\* sorted trees with pairwise distinct filenames
Roots ==
    { <<>>,
      <<MkEntry(NameADash, "Blob", B1), MkEntry(NameA, "Tree", T2)>> }

\* arguments of set_root: sorted as well, one with an entry of the null id
SetRoots ==
    Roots \cup { <<MkEntry(NameADash, "Blob", B1), MkEntry(NameA, "Tree", Null)>> }

\* rela_path arguments: sequences of components
Paths ==
    { <<NameA>>, <<NameA, NameA>>, <<NameA, NameADash>>, <<NameA, NameA, NameA>> }

\* (kind, id) arguments of upsert
Upserts == { <<"Blob", B2>>, <<"Tree", Null>>, <<"Tree", EmptyTreeId>> }

----------------------------------------------------------------------------
(* Reference semantics of the edits, on the set of non-tree leaves *)

Leaf(path, mode, oid) == [path |-> path, mode |-> mode, oid |-> oid]

IsPrefix(p, q) == Len(p) <= Len(q) /\ SubSeq(q, 1, Len(p)) = p

\* the non-tree entries of a tree and of every tree its entries address
RECURSIVE Flatten(_, _)
Flatten(entries, at) ==
    UNION { LET e == entries[i]
                p == Append(at, e.filename)
            IN  IF mode_is_tree(e.mode)
                THEN (IF e.oid[1] = "tree" THEN Flatten(e.oid[2], p) ELSE {})
                ELSE {Leaf(p, e.mode, e.oid)}
          : i \in 1..Len(entries) }

RefRemove(leaves, p) == { l \in leaves : ~IsPrefix(p, l.path) }

RefUpsert(leaves, p, kind, id) ==
    { l \in leaves : ~IsPrefix(p, l.path) /\ ~IsPrefix(l.path, p) }
        \cup {Leaf(p, kind, id)}

----------------------------------------------------------------------------
(* The editor as a state machine *)

NoOp == [op |-> "new", ok |-> TRUE, path |-> <<>>, kind |-> "Blob", id |-> Null,
         pre |-> <<>>, preFetched |-> <<>>, expect |-> {}, inScope |-> FALSE,
         ret |-> Null, root |-> <<>>]

Brief(l) == [op |-> l.op, ok |-> l.ok, ret |-> l.ret, root |-> l.root]

\* Editor::new
Init ==
    \E root \in Roots :
        /\ trees = new(root)
        /\ panicked = ""
        /\ findLog = <<>>
        /\ fetched = <<>>
        /\ sunk = <<>>
        /\ pruned = {}
        /\ last = NoOp
        /\ prev = Brief(NoOp)
        /\ ref = Flatten(root, <<>>)
        /\ refOK = TRUE
        /\ nops = 0

Ready == panicked = "" /\ nops < MaxOps

Panic(msg, op) ==
    /\ panicked' = msg
    /\ last' = [NoOp EXCEPT !.op = op, !.ok = FALSE, !.pre = trees, !.preFetched = fetched]
    /\ sunk' = <<>>
    /\ pruned' = {}
    /\ UNCHANGED <<trees, findLog, fetched>>
    /\ ref' = {}
    /\ refOK' = FALSE

Applied(name, rela_path, op, r) ==
    LET inScope == r.ok /\ (op.set => (~mode_is_tree(op.kind) /\ ~is_null(op.id)))
    IN  /\ trees' = r.trees
        /\ findLog' = r.findLog
        /\ fetched' = r.fetched
        /\ last' = [NoOp EXCEPT !.op = name, !.ok = r.ok, !.path = rela_path,
                                !.kind = op.kind, !.id = op.id, !.pre = trees,
                                !.preFetched = fetched, !.expect = ref,
                                !.inScope = refOK]
        /\ refOK' = (refOK /\ inScope)
        /\ ref' = IF ~(refOK /\ inScope) THEN {}
                  ELSE IF op.set THEN RefUpsert(ref, rela_path, op.kind, op.id)
                  ELSE RefRemove(ref, rela_path)
        /\ sunk' = <<>>
        /\ pruned' = {}
        /\ UNCHANGED panicked

\* upsert or remove; any one of the find_tree calls it makes may fail
Edit(name, rela_path, op) ==
    /\ nops' = nops + 1
    /\ prev' = Brief(last)
    /\ IF empty_path \notin DOMAIN trees THEN Panic("root is always present", name)
       ELSE LET r0 == upsert_or_remove(trees, findLog, fetched, rela_path, op, 0)
            IN  \E failAt \in 0..(Len(r0.findLog) - Len(findLog)) :
                    Applied(name, rela_path, op,
                            IF failAt = 0 THEN r0
                            ELSE upsert_or_remove(trees, findLog, fetched, rela_path,
                                                  op, failAt))

Upsert ==
    \E rela_path \in Paths, ki \in Upserts :
        /\ Ready
        /\ Edit("upsert", rela_path, UpsertOp(ki[1], ki[2]))

Remove ==
    \E rela_path \in Paths :
        /\ Ready
        /\ Edit("remove", rela_path, RemoveOp)

Written(r) ==
    /\ trees' = r.trees
    /\ sunk' = r.sunk
    /\ pruned' = r.pruned
    /\ panicked' = IF r.res \in {"ok", "err"} THEN "" ELSE r.res
    /\ last' = [NoOp EXCEPT !.op = "write", !.ok = (r.res = "ok"),
                            !.pre = trees, !.preFetched = fetched,
                            !.expect = ref, !.inScope = refOK,
                            !.ret = r.id,
                            !.root = IF r.res = "ok" THEN r.sunk[Len(r.sunk)].tree ELSE <<>>]
    /\ findLog' = IF r.res = "ok" THEN <<>> ELSE findLog
    /\ fetched' = IF r.res = "ok" THEN <<>> ELSE fetched
    /\ ref' = IF r.res = "ok" THEN Flatten(r.sunk[Len(r.sunk)].tree, <<>>) ELSE {}
    /\ refOK' = (r.res = "ok")

\* write; any one of the sink calls it makes may fail
Write ==
    /\ Ready
    /\ nops' = nops + 1
    /\ prev' = Brief(last)
    /\ IF DOMAIN trees = {} THEN Panic("there is at least the root tree", "write")
       ELSE IF empty_path \notin DOMAIN trees
       THEN Panic("root tree is always present", "write")
       ELSE LET r0 == write(trees, 0)
            IN  \E failAt \in 0..Len(r0.sunk) :
                    Written(IF failAt = 0 THEN r0 ELSE write(trees, failAt))

SetRoot ==
    \E root \in SetRoots :
        /\ Ready
        /\ nops' = nops + 1
        /\ prev' = Brief(last)
        /\ trees' = set_root(trees, root)
        /\ findLog' = <<>>
        /\ fetched' = <<>>
        /\ last' = [NoOp EXCEPT !.op = "set_root", !.pre = trees, !.preFetched = fetched,
                                !.root = root]
        /\ ref' = Flatten(root, <<>>)
        /\ refOK' = TRUE
        /\ sunk' = <<>>
        /\ pruned' = {}
        /\ UNCHANGED panicked

Next == Upsert \/ Remove \/ Write \/ SetRoot

Spec == Init /\ [][Next]_vars

----------------------------------------------------------------------------
(* Properties *)

SunkIdx == 1..Len(sunk)

\* path q lies strictly beneath path p
Beneath(q, p) ==
    /\ Len(q) > Len(p)
    /\ IF p = <<>> THEN TRUE
       ELSE SubSeq(q, 1, Len(p)) = p /\ q[Len(p) + 1] = Slash

HasName(tree, name) == \E i \in 1..Len(tree) : tree[i].filename = name

HasNull(tree) == \E i \in 1..Len(tree) : is_null(tree[i].oid)

\* C1: a successful write after in-scope edits (upserts of non-tree kind and
\* non-null id, removes) hands the sink a root that expands to exactly the
\* leaves the reference semantics give for those edits in program order.
C1_WriteMatchesReference ==
    (last.op = "write" /\ last.ok /\ last.inScope)
        => Flatten(sunk[Len(sunk)].tree, <<>>) = last.expect

\* C2: no tree passed to the sink holds an entry with the null id.
C2_NoNullReachesSink ==
    \A i \in SunkIdx : ~HasNull(sunk[i].tree)

\* a write met a pending non-root tree with a null entry and still emitted it
C2_Witness ==
    /\ last.op = "write" /\ last.ok
    /\ \E i \in SunkIdx :
        /\ sunk[i].path # empty_path
        /\ sunk[i].path \in DOMAIN last.pre
        /\ HasNull(last.pre[sunk[i].path])
    /\ HasNull(last.pre[empty_path])

\* C3: of two trees passed to the sink in one write, the one beneath the other
\* is passed first, and a parent is passed carrying the id its child was given.
C3_PostOrder ==
    \A i \in SunkIdx, j \in SunkIdx :
        Beneath(sunk[j].path, sunk[i].path) =>
            /\ j < i
            /\ (sunk[j].ok /\ parent_path(sunk[j].path) = sunk[i].path) =>
                 \E k \in 1..Len(sunk[i].tree) :
                    /\ sunk[i].tree[k].filename = filename(sunk[j].path)
                    /\ mode_is_tree(sunk[i].tree[k].mode)
                    /\ sunk[i].tree[k].oid = sunk[j].id

\* a write emitted a subtree, the subtree above it and the root
C3_Witness ==
    /\ last.op = "write" /\ last.ok
    /\ \E i \in SunkIdx, j \in SunkIdx :
        /\ sunk[i].path # empty_path
        /\ Beneath(sunk[j].path, sunk[i].path)

C5_OnlyChangedTreesSunk ==
    last.op = "write" =>
        \A i \in SunkIdx :
            (/\ sunk[i].path # empty_path
             /\ sunk[i].path \in DOMAIN last.preFetched
             /\ last.pre[sunk[i].path] = last.preFetched[sunk[i].path])
                => sunk[i].tree # last.preFetched[sunk[i].path]

\* C6 as stated: find_tree is called at most once for a path, failed calls included.
C6_FindAtMostOnce ==
    \A i \in 1..Len(findLog), j \in 1..Len(findLog) :
        findLog[i].path = findLog[j].path => i = j

\* C6 amended: find_tree succeeds at most once for a path, and is not called
\* for it again afterwards; only a call that failed is ever repeated.
C6_FindSucceedsAtMostOnce ==
    \A i \in 1..Len(findLog), j \in 1..Len(findLog) :
        (i < j /\ findLog[i].path = findLog[j].path) => ~findLog[i].ok

\* a path was fetched, and a later edit walked through it again
C6_Witness ==
    /\ last.op \in {"upsert", "remove"} /\ last.ok
    /\ Len(last.path) >= 2
    /\ \E i \in 1..Len(findLog) :
        /\ findLog[i].ok
        /\ findLog[i].path \in DOMAIN last.preFetched
        /\ Beneath(JoinPath(last.path), findLog[i].path)

\* C7: find_tree is never called with the null id.
C7_NullNeverFetched ==
    \A i \in 1..Len(findLog) : ~is_null(findLog[i].oid)

\* C8: every tree of the pending store is sorted in the canonical order.
C8_StoreSorted ==
    \A k \in DOMAIN trees : IsSorted(trees[k])

\* an entry changed kind in place next to a name it is a prefix of
C8_Witness ==
    /\ last.op = "upsert" /\ last.ok
    /\ \E k \in DOMAIN trees :
        /\ k \in DOMAIN last.pre
        /\ Len(trees[k]) = 2 /\ Len(last.pre[k]) = 2
        /\ trees[k][1].filename = last.pre[k][2].filename
        /\ trees[k][2].filename = last.pre[k][1].filename

\* C9: no empty non-root tree is passed to the sink; the frames found empty
\* are cut from their parent, and a parent emptied that way is cut in turn.
C9_EmptyPruned ==
    last.op = "write" =>
        /\ \A i \in SunkIdx : sunk[i].path # empty_path => sunk[i].tree # <<>>
        /\ \A p \in pruned :
            /\ p # empty_path
            /\ \A i \in SunkIdx :
                /\ sunk[i].path # p
                /\ sunk[i].path = parent_path(p) => ~HasName(sunk[i].tree, filename(p))
            /\ last.ok =>
                \/ parent_path(p) = empty_path
                \/ parent_path(p) \in pruned
                \/ \E i \in SunkIdx : sunk[i].path = parent_path(p)

\* a subtree was cut and its parent, left empty, was cut too
C9_Witness ==
    /\ last.op = "write" /\ last.ok
    /\ \E p \in pruned : parent_path(p) \in pruned

\* C10: a successful write right after a successful write calls the sink
\* once, with the root the first write passed.
C10_WriteTwice ==
    (last.op = "write" /\ last.ok /\ prev.op = "write" /\ prev.ok) =>
        /\ Len(sunk) = 1
        /\ sunk[1].path = empty_path
        /\ sunk[1].tree = prev.root

\* two successful writes in a row on a root that is not empty
C10_Witness ==
    /\ last.op = "write" /\ last.ok /\ prev.op = "write" /\ prev.ok
    /\ prev.root # <<>>

\* the upsert that led to this state, applied once more to this state
UpsertAgain ==
    upsert_or_remove(trees, findLog, fetched, last.path,
                     UpsertOp(last.kind, last.id), 0)

\* the result r of an edit is Ok with the store and the find log as they are,
\* and write does from it what it does from the present store
SameAfter(r) ==
    /\ r.ok
    /\ r.trees = trees
    /\ r.findLog = findLog
    /\ write(r.trees, 0) = write(trees, 0)

\* C11: in every state that a successful upsert(p, kind, id) has left, the
\* same upsert once more returns Ok, calls find_tree for nothing and leaves
\* the pending store as it is, so that the next write passes the sink the
\* same trees and returns the same root as after the first call alone.
C11_UpsertIdempotent ==
    (last.op = "upsert" /\ last.ok) => SameAfter(UpsertAgain)

\* an upsert of a path of several components fetched a tree and changed the store
C11_Witness ==
    /\ last.op = "upsert" /\ last.ok
    /\ Len(last.path) >= 2
    /\ fetched # last.preFetched
    /\ \E k \in DOMAIN last.pre : trees[k] # last.pre[k]

\* the subtree an entry stands for in the pending view: the pending tree at
\* its path if there is one, else the tree its id addresses
SubtreeAt(store, key, oid) ==
    IF key \in DOMAIN store THEN store[key]
    ELSE IF CanFind(oid) THEN find_tree(oid)
    ELSE <<>>

\* the path resolves: every component names an entry, all but the last a tree
RECURSIVE Resolves(_, _, _, _)
Resolves(store, tree, at, comps) ==
    \/ comps = <<>>
    \/ \E i \in 1..Len(tree) :
        /\ tree[i].filename = Head(comps)
        /\ \/ Len(comps) = 1
           \/ /\ mode_is_tree(tree[i].mode)
              /\ Resolves(store,
                          SubtreeAt(store, push_path_component(at, Head(comps)),
                                    tree[i].oid),
                          push_path_component(at, Head(comps)), Tail(comps))

\* the last operation was a remove of a path that did not resolve
RemovedUnresolved ==
    /\ last.op = "remove"
    /\ empty_path \in DOMAIN last.pre
    /\ ~Resolves(last.pre, last.pre[empty_path], empty_path, last.path)

\* C12 as stated: a remove of a path that does not resolve leaves the pending
\* store with the same keys mapped to the same trees.
C12_RemoveUnresolvedNoChange ==
    RemovedUnresolved => trees = last.pre

\* C12 amended: such a remove changes no tree the store holds; the keys it
\* adds are paths it walked, each mapped to the tree find_tree returned for
\* it or, for the empty-tree id, to the empty tree.
C12_RemoveUnresolvedKeeps ==
    RemovedUnresolved =>
        /\ \A k \in DOMAIN last.pre : k \in DOMAIN trees /\ trees[k] = last.pre[k]
        /\ \A k \in DOMAIN trees \ DOMAIN last.pre :
            /\ Beneath(JoinPath(last.path), k)
            /\ \/ k \in DOMAIN fetched \ DOMAIN last.preFetched /\ trees[k] = fetched[k]
               \/ trees[k] = <<>>

\* a remove stopped at a non-tree entry in the middle of its path
C12_Witness ==
    /\ RemovedUnresolved
    /\ last.ok
    /\ \E i \in 1..Len(last.pre[empty_path]) :
        /\ last.pre[empty_path][i].filename = Head(last.path)
        /\ ~mode_is_tree(last.pre[empty_path][i].mode)
    /\ Len(last.path) >= 2

\* the messages of the expectations that the root tree is in the store
RootExpectations ==
    {"root is always present", "root tree is always present",
     "there is at least the root tree"}

WithoutNull(tree) == SelectSeq(tree, LAMBDA e : ~is_null(e.oid))

\* C15: right after set_root(t), from whatever state, the store holds the
\* empty path alone, mapped to t, and a write with no operation in between
\* calls the sink once, for the root, with the entries of t that have a
\* non-null id.
C15_SetRootErases ==
    /\ last.op = "set_root" =>
        /\ DOMAIN trees = {empty_path}
        /\ trees[empty_path] = last.root
        /\ write(trees, 0).res = "ok"
        /\ Len(write(trees, 0).sunk) = 1
    /\ (prev.op = "set_root" /\ last.op = "write") =>
        /\ Len(sunk) = 1
        /\ sunk[1].path = empty_path
        /\ sunk[1].tree = WithoutNull(prev.root)

\* set_root with a tree holding a null entry, after a write whose sink failed
\* and left subtrees in the store
C15_Witness ==
    /\ last.op = "set_root"
    /\ prev.op = "write" /\ ~prev.ok
    /\ HasNull(last.root)
    /\ DOMAIN last.pre # {}

\* C16: in write, every frame with a parent finds its name as a tree entry of
\* the frame its parent index points to, and that frame is the tree at the
\* parent path, which held such an entry when write began; the expectations
\* "the parent always knows us by name" and "always present, pointing
\* towards zero" never fail.
C16_ParentKnowsChild ==
    /\ panicked \notin {"the parent always knows us by name",
                        "always present, pointing towards zero"}
    /\ last.op = "write" =>
        \A i \in SunkIdx :
            \/ sunk[i].path = empty_path /\ sunk[i].into = None
            \/ /\ sunk[i].path # empty_path
               /\ sunk[i].branch = "child"
               /\ sunk[i].into = Some(parent_path(sunk[i].path))
               /\ parent_path(sunk[i].path) \in DOMAIN last.pre
               /\ \E k \in 1..Len(last.pre[parent_path(sunk[i].path)]) :
                    /\ last.pre[parent_path(sunk[i].path)][k].filename
                            = filename(sunk[i].path)
                    /\ mode_is_tree(last.pre[parent_path(sunk[i].path)][k].mode)

\* a write emitted a tree two levels down whose name its grandparent holds too
C16_Witness ==
    /\ last.op = "write" /\ last.ok
    /\ \E i \in SunkIdx :
        /\ parent_path(sunk[i].path) # empty_path
        /\ sunk[i].path # empty_path
        /\ HasName(last.pre[empty_path], filename(sunk[i].path))

\* C17: every write that starts with the root in the store comes to the end
\* of its loop: with Ok out of the root branch when no sink call fails, with
\* the error of the failing sink call otherwise, and never at the
\* unreachable! behind the loop.
C17_WriteLoopEnds ==
    /\ panicked # "we exit as soon as everything is consumed"
    /\ (last.op = "write" /\ empty_path \in DOMAIN last.pre) =>
        /\ panicked = ""
        /\ \/ last.ok /\ sunk[Len(sunk)].branch = "root"
           \/ ~last.ok /\ sunk # <<>> /\ ~sunk[Len(sunk)].ok

\* a write went around the loop for three levels of pending trees and failed
\* in the sink before it reached the root
C17_Witness ==
    /\ last.op = "write" /\ ~last.ok /\ panicked = ""
    /\ Len(sunk) >= 2
    /\ Cardinality(DOMAIN last.pre) >= 3

\* the last operation was upsert(foo/bar, Blob, id) that succeeded where the
\* root held no entry foo, or one that was not a tree
UpsertedIntoFresh ==
    /\ last.op = "upsert" /\ last.ok
    /\ Len(last.path) = 2
    /\ last.kind = "Blob"
    /\ \A i \in 1..Len(last.pre[empty_path]) :
        last.pre[empty_path][i].filename = last.path[1]
            => ~mode_is_tree(last.pre[empty_path][i].mode)

\* C18: after upsert(foo/bar, Blob, id) where foo was absent or not a tree,
\* the pending subtree for foo holds the entry bar alone, and the next write
\* passes the sink exactly that tree for foo, whatever was done before.
C18_FreshSubtree ==
    UpsertedIntoFresh =>
        /\ trees[JoinPath(<<last.path[1]>>)]
                = <<MkEntry(last.path[2], last.kind, last.id)>>
        /\ \E i \in 1..Len(write(trees, 0).sunk) :
            /\ write(trees, 0).sunk[i].path = JoinPath(<<last.path[1]>>)
            /\ write(trees, 0).sunk[i].tree
                    = <<MkEntry(last.path[2], last.kind, last.id)>>

\* the filenames of a tree are pairwise distinct
DistinctNames(tree) ==
    \A i \in 1..Len(tree), j \in 1..Len(tree) :
        tree[i].filename = tree[j].filename => i = j

\* C19: the root and the trees find_tree returns have pairwise distinct
\* filenames, and so has every tree of the pending store, in every state.
C19_DistinctNames ==
    /\ \A k \in DOMAIN fetched : DistinctNames(fetched[k])
    /\ \A k \in DOMAIN trees : DistinctNames(trees[k])

\* an upsert replaced, under the same name, a blob by a tree or a tree by a
\* blob, in a tree that holds another name as well
C19_Witness ==
    /\ last.op = "upsert" /\ last.ok
    /\ \E k \in DOMAIN last.pre :
        /\ Len(trees[k]) >= 2
        /\ Len(trees[k]) = Len(last.pre[k])
        /\ \E i \in 1..Len(trees[k]), j \in 1..Len(trees[k]) :
            /\ trees[k][i].filename = last.pre[k][j].filename
            /\ mode_is_tree(trees[k][i].mode) # mode_is_tree(last.pre[k][j].mode)

\* the pending tree at path k hangs on no tree entry: the tree at its parent
\* path is missing, or has no tree-kind entry of its name, or is detached itself
RECURSIVE Detached(_, _)
Detached(store, k) ==
    /\ k # empty_path
    /\ \/ parent_path(k) \notin DOMAIN store
       \/ \A i \in 1..Len(store[parent_path(k)]) :
            store[parent_path(k)][i].filename = filename(k)
                => ~mode_is_tree(store[parent_path(k)][i].mode)
       \/ Detached(store, parent_path(k))

====
